---- MODULE Spec2Model ----
(***************************************************************************)
(* The resumable multipart upload engine of hiresify: the in-memory part   *)
(* store (UploadMemoryStore), the bounded job queue (UploadQueue) and the  *)
(* per-file controller (the useUpload hook) that binds them to the blob    *)
(* transport.  Every step of an action is the code between two awaits.     *)
(***************************************************************************)
EXTENDS Naturals, Sequences, FiniteSets, TLC

\* ------------------------------------------------------------- bounds
\* jsBlob.size and partSize of the one file under upload.
FileSize == 3
PartSize == 2
\* How many operations the user may invoke on the controller (and how many
\* pause / retry calls are made on the store when it is driven on its own).
MaxCalls == 2
\* How many parts nextPart may hand out in all (each one becomes one part job).
MaxJobs == 4
\* The concurrency the shared UploadQueue is built with.
Concurrency == 2
\* How many part jobs the controller of one file may create in all.
MaxUploads == 3
\* The same two limits for the longer sessions with a transport that creates
\* the upload session at once.
SessionCalls == 3
SessionUploads == 5
\* The same two limits for the sessions in which the transport recovers: what
\* fails, fails before the user touches the entry for the first time.
RecoverCalls == 2
RecoverUploads == 4
\* The same two limits for the sessions in which the user pauses an upload
\* and starts it again over a transport that does not fail.
ResumeCalls == 2
ResumeUploads == 5
\* The same two limits for the sessions in which the operations of the
\* controller are called after the upload is done.
TerminalCalls == 2
TerminalUploads == 3

\* ------------------------------------------------------------- helpers
\* The async callers that can be inside the store at the same time.
Procs == {"effect", "user"}

RECURSIVE SeqToSet(_)
SeqToSet(s) == IF s = <<>> THEN {} ELSE {Head(s)} \cup SeqToSet(Tail(s))

RECURSIVE Without(_, _)
\* Array / Set entries with every occurrence of x removed, order kept.
Without(s, x) ==
  IF s = <<>> THEN <<>>
  ELSE IF Head(s) = x THEN Without(Tail(s), x)
  ELSE <<Head(s)>> \o Without(Tail(s), x)

\* Math.ceil(jsBlob.size / partSize)
PartCount == (FileSize + PartSize - 1) \div PartSize

Min(a, b) == IF a < b THEN a ELSE b

\* part.chunk.size of the part with the given 1-based index:
\* jsBlob.slice(offset, Math.min(offset + partSize, jsBlob.size)).size
ChunkSize(index) ==
  Min((index - 1) * PartSize + PartSize, FileSize) - (index - 1) * PartSize

VARIABLES
  store,      \* the UploadMemoryStore instance
  parts,      \* parts[k] = index of the k-th part object ever created by init
  pc,         \* pc[p]: where the async caller p is suspended
  cur,        \* cur[p]: loop cursor of the loop p is suspended in
  held,       \* part objects handed out by nextPart (what callers can pass back)
  passCount,  \* passCount[k]: how often part object k was added to doneSize
  calls,      \* number of pause / retry calls made so far
  handed,     \* number of parts nextPart has handed out so far
  queue,      \* the UploadQueue instance shared by all uploads
  jobs,       \* jobs[j]: the j-th job ever passed to enqueue
  microtasks, \* number of queued microtasks that will call runNextJobs
  startLog,   \* the jobs in the order in which the queue invoked them
  op,         \* op[p]: the controller operation the caller p is inside
  uploadId,   \* uploadIdRef.current (0 stands for the empty string)
  controllers,\* the AbortController array; controller j belongs to job j
  blob,       \* the in-transit entry of the file in the blob slice
  persisted,  \* artifacts in the persisted part of the blob slice
  creates,    \* number of api.create calls made so far
  finishing,  \* the uploadIds of the finish thunks in flight
  finishes,   \* number of finish thunks dispatched so far
  cancels,    \* the upload id carried by each api.cancel call made so far
  cancelled,  \* the outcome of each api.cancel call answered so far
  artifacts,  \* number of finish calls that have returned an artifact
  budget      \* the limits on user operations and part jobs in force

storeVars == <<store, parts, held, passCount, calls, handed>>
procVars == <<pc, cur>>
queueVars == <<queue, jobs, microtasks, startLog>>
hookVars == <<op, uploadId, controllers, blob, persisted, creates, finishing, finishes,
              cancels, cancelled, artifacts, budget>>
vars == <<store, parts, pc, cur, held, passCount, calls, handed,
          queue, jobs, microtasks, startLog,
          op, uploadId, controllers, blob, persisted, creates, finishing, finishes,
          cancels, cancelled, artifacts, budget>>

\* ------------------------------------------------------------- UploadMemoryStore
NewStore ==
  [ failedParts |-> <<>>,
    onDutyParts |-> <<>>,
    toSendParts |-> <<>>,
    allClear    |-> FALSE,
    doneInit    |-> FALSE,
    doneSize    |-> 0 ]

\* Set.prototype.add: an element already present keeps its place.
SetAdd(s, x) == IF x \in SeqToSet(s) THEN s ELSE Append(s, x)

\* failPart({ part })
failPart(s, part) ==
  IF part \notin SeqToSet(s.onDutyParts) THEN s
  ELSE LET duty == Without(s.onDutyParts, part)
       IN [s EXCEPT !.failedParts = Append(@, part),
                    !.onDutyParts = duty,
                    !.allClear = (Len(duty) = 0)]

\* nextPart(): toSendParts.pop(), the popped part goes on duty.
\* Returns the new store and the part (0 stands for undefined).
nextPart(s) ==
  IF Len(s.toSendParts) = 0 THEN [store |-> s, part |-> 0]
  ELSE LET part == s.toSendParts[Len(s.toSendParts)]
       IN [store |-> [s EXCEPT !.toSendParts = SubSeq(@, 1, Len(@) - 1),
                               !.onDutyParts = SetAdd(@, part)],
           part |-> part]

\* passPart({ part }); size is part.chunk.size
passPart(s, part, size) ==
  IF part \notin SeqToSet(s.onDutyParts) THEN s
  ELSE LET duty == Without(s.onDutyParts, part)
       IN [s EXCEPT !.onDutyParts = duty,
                    !.allClear = (Len(duty) = 0),
                    !.doneSize = @ + size]


\* One resumption of init({ jsBlob, partSize }) with loop variable index:
\* an iteration pushes a fresh part object and awaits defer(); leaving the
\* loop sets doneInit.  ps is the table of part objects created so far.
initStep(s, ps, index) ==
  IF index <= PartCount
  THEN [store |-> [s EXCEPT !.toSendParts = Append(@, Len(ps) + 1)],
        parts |-> Append(ps, index), cur |-> index + 1, done |-> FALSE]
  ELSE [store |-> [s EXCEPT !.doneInit = TRUE],
        parts |-> ps, cur |-> index, done |-> TRUE]

\* One resumption of pause(): the Set iterator has visited the first n live
\* entries of onDutyParts; an iteration pushes the next entry onto
\* toSendParts and awaits defer(); leaving the loop clears onDutyParts.
pauseStep(s, n) ==
  IF n < Len(s.onDutyParts)
  THEN [store |-> [s EXCEPT !.toSendParts = Append(@, s.onDutyParts[n + 1])],
        cur |-> n + 1, done |-> FALSE]
  ELSE [store |-> [s EXCEPT !.onDutyParts = <<>>], cur |-> 0, done |-> TRUE]

\* retry() that empties failedParts without putting the parts back in line.
retryStepDropsParts(s, n) ==
  [store |-> [s EXCEPT !.failedParts = <<>>], cur |-> 0, done |-> TRUE]

\* retry() that leaves its loop without truncating failedParts.
retryStepKeepsFailed(s, n) ==
  IF n < Len(s.failedParts)
  THEN [store |-> [s EXCEPT !.toSendParts = Append(@, s.failedParts[n + 1])],
        cur |-> n + 1, done |-> FALSE]
  ELSE [store |-> s, cur |-> 0, done |-> TRUE]

\* One resumption of retry(): the array iterator stands after the first n
\* entries of failedParts; leaving the loop truncates failedParts.
retryStep(s, n) ==
  IF n < Len(s.failedParts)
  THEN [store |-> [s EXCEPT !.toSendParts = Append(@, s.failedParts[n + 1])],
        cur |-> n + 1, done |-> FALSE]
  ELSE [store |-> [s EXCEPT !.failedParts = <<>>], cur |-> 0, done |-> TRUE]

\* What a live Set iterator of onDutyParts sees after a store call turned
\* the entries old into new: deleting an entry it has passed moves it back
\* by one, clearing the Set puts it at the start of what is added next.
IterAfter(old, new, n) ==
  IF new = <<>> THEN 0
  ELSE n - Cardinality({i \in 1..Min(n, Len(old)) : old[i] \notin SeqToSet(new)})

\* The cursors of all callers after a store call; only the callers suspended
\* inside pause() hold a Set iterator.
CursorsAfter(old, new) ==
  [p \in Procs |->
     IF pc[p] = "pause" THEN IterAfter(old, new, cur[p]) ELSE cur[p]]

getAllClear(s) == s.allClear

\* getDoneSize() that reports the bytes still missing.
getDoneSizeMissing(s) == FileSize - s.doneSize

getDoneSize(s) == s.doneSize

\* ------------------------------------------------------------- UploadQueue
NewQueue == [pendingJobs |-> <<>>, runningJobs |-> 0]

RECURSIVE runNextJobsOneTooMany(_)
\* runNextJobs with the slot test off by one (<= instead of <).
runNextJobsOneTooMany(q) ==
  IF q.runningJobs <= Concurrency /\ Len(q.pendingJobs) > 0
  THEN LET rest == runNextJobsOneTooMany([pendingJobs |-> Tail(q.pendingJobs),
                                          runningJobs |-> q.runningJobs + 1])
       IN [queue |-> rest.queue,
           started |-> <<Head(q.pendingJobs)>> \o rest.started]
  ELSE [queue |-> q, started |-> <<>>]

RECURSIVE runNextJobsLifo(_)
\* runNextJobs taking the newest pending job (pop instead of shift).
runNextJobsLifo(q) ==
  IF q.runningJobs < Concurrency /\ Len(q.pendingJobs) > 0
  THEN LET n == Len(q.pendingJobs)
           rest == runNextJobsLifo([pendingJobs |-> SubSeq(q.pendingJobs, 1, n - 1),
                                    runningJobs |-> q.runningJobs + 1])
       IN [queue |-> rest.queue,
           started |-> <<q.pendingJobs[n]>> \o rest.started]
  ELSE [queue |-> q, started |-> <<>>]

RECURSIVE runNextJobsKeepsLast(_)
\* runNextJobs that stops while one job is still pending (> 1 instead of > 0).
runNextJobsKeepsLast(q) ==
  IF q.runningJobs < Concurrency /\ Len(q.pendingJobs) > 1
  THEN LET rest == runNextJobsKeepsLast([pendingJobs |-> Tail(q.pendingJobs),
                                         runningJobs |-> q.runningJobs + 1])
       IN [queue |-> rest.queue,
           started |-> <<Head(q.pendingJobs)>> \o rest.started]
  ELSE [queue |-> q, started |-> <<>>]

RECURSIVE runNextJobs(_)
\* runNextJobs(): while a slot is free and a job is pending, shift the head
\* job and invoke it.  Returns the queue and the jobs invoked, in order.
runNextJobs(q) ==
  IF q.runningJobs < Concurrency /\ Len(q.pendingJobs) > 0
  THEN LET rest == runNextJobs([pendingJobs |-> Tail(q.pendingJobs),
                                runningJobs |-> q.runningJobs + 1])
       IN [queue |-> rest.queue,
           started |-> <<Head(q.pendingJobs)>> \o rest.started]
  ELSE [queue |-> q, started |-> <<>>]

\* enqueue({ job }): push the job, then runNextJobs().
enqueue(q, job) == runNextJobs([q EXCEPT !.pendingJobs = Append(@, job)])

\* A .finally() callback that calls runNextJobs() itself instead of queueing
\* a microtask: the slot it frees is taken in the same step.
jobFinallySameTick(q) == runNextJobs([q EXCEPT !.runningJobs = @ - 1]).queue

\* The .finally() callback of an invoked job: free the slot; the caller
\* queues the microtask that calls runNextJobs.
jobFinally(q) == [q EXCEPT !.runningJobs = @ - 1]

\* The jobs table after the queue invoked the jobs in started: each one runs
\* up to its first await, the transport call.
Invoke(js, started) ==
  [j \in 1..Len(js) |->
     IF j \in SeqToSet(started) THEN [js[j] EXCEPT !.state = "running"] ELSE js[j]]

\* Jobs the queue has invoked and whose promise has not settled.
Outstanding == {j \in 1..Len(jobs) : jobs[j].state \in {"running", "returned"}}

\* ------------------------------------------------------------- the store on its own
\* Any interleaving of the store's operations: an async caller that may be
\* suspended inside init, pause or retry, and synchronous nextPart, passPart
\* and failPart calls for parts that nextPart has handed out.
StoreProcs == {"user"}

StoreInit ==
  /\ store = NewStore
  /\ parts = <<>>
  /\ pc = [p \in Procs |-> "idle"]
  /\ cur = [p \in Procs |-> 0]
  /\ held = {}
  /\ passCount = [k \in {} |-> 0]
  /\ calls = 0
  /\ handed = 0
  /\ queue = NewQueue
  /\ jobs = <<>>
  /\ microtasks = 0
  /\ startLog = <<>>
  /\ op = [p \in Procs |-> "none"]
  /\ uploadId = 0
  /\ controllers = <<>>
  /\ blob = [present |-> TRUE, status |-> "active", progress |-> 0]
  /\ persisted = 0
  /\ creates = 0
  /\ finishing = <<>>
  /\ finishes = 0
  /\ cancels = <<>>
  /\ cancelled = <<>>
  /\ artifacts = 0
  /\ budget = [calls |-> MaxCalls, uploads |-> MaxUploads]

\* p calls store.init(): returns at once when doneInit, else runs up to the
\* first await.
SInit(p) ==
  /\ pc[p] = "idle"
  /\ IF store.doneInit
     THEN UNCHANGED <<store, parts, pc, cur, passCount>>
     ELSE LET r == initStep(store, parts, 1)
          IN /\ store' = r.store
             /\ parts' = r.parts
             /\ passCount' = [k \in 1..Len(r.parts) |->
                                IF k \in DOMAIN passCount THEN passCount[k] ELSE 0]
             /\ pc' = [pc EXCEPT ![p] = IF r.done THEN "idle" ELSE "init"]
             /\ cur' = [cur EXCEPT ![p] = r.cur]
  /\ UNCHANGED <<held, calls, handed>>
  /\ UNCHANGED <<queueVars, hookVars>>

SInitStep(p) ==
  /\ pc[p] = "init"
  /\ LET r == initStep(store, parts, cur[p])
     IN /\ store' = r.store
        /\ parts' = r.parts
        /\ passCount' = [k \in 1..Len(r.parts) |->
                           IF k \in DOMAIN passCount THEN passCount[k] ELSE 0]
        /\ pc' = [pc EXCEPT ![p] = IF r.done THEN "idle" ELSE "init"]
        /\ cur' = [cur EXCEPT ![p] = IF r.done THEN 0 ELSE r.cur]
  /\ UNCHANGED <<held, calls, handed>>
  /\ UNCHANGED <<queueVars, hookVars>>

SNextPart ==
  /\ handed < MaxJobs
  /\ LET r == nextPart(store)
     IN /\ r.part # 0
        /\ store' = r.store
        /\ held' = held \cup {r.part}
  /\ handed' = handed + 1
  /\ UNCHANGED <<parts, pc, cur, passCount, calls>>
  /\ UNCHANGED <<queueVars, hookVars>>

SPassPart(part) ==
  /\ part \in held
  /\ store' = passPart(store, part, ChunkSize(parts[part]))
  /\ passCount' = [passCount EXCEPT ![part] =
                     IF store'.doneSize # store.doneSize THEN @ + 1 ELSE @]
  /\ cur' = CursorsAfter(store.onDutyParts, store'.onDutyParts)
  /\ UNCHANGED <<parts, pc, held, calls, handed>>
  /\ UNCHANGED <<queueVars, hookVars>>

SFailPart(part) ==
  /\ part \in held
  /\ store' = failPart(store, part)
  /\ cur' = CursorsAfter(store.onDutyParts, store'.onDutyParts)
  /\ UNCHANGED <<parts, pc, held, passCount, calls, handed>>
  /\ UNCHANGED <<queueVars, hookVars>>

SPause(p) ==
  /\ pc[p] = "idle"
  /\ calls < MaxCalls
  /\ calls' = calls + 1
  /\ LET r == pauseStep(store, 0)
     IN /\ store' = r.store
        /\ pc' = [pc EXCEPT ![p] = IF r.done THEN "idle" ELSE "pause"]
        /\ cur' = [CursorsAfter(store.onDutyParts, r.store.onDutyParts)
                     EXCEPT ![p] = r.cur]
  /\ UNCHANGED <<parts, held, passCount, handed>>
  /\ UNCHANGED <<queueVars, hookVars>>

SPauseStep(p) ==
  /\ pc[p] = "pause"
  /\ LET r == pauseStep(store, cur[p])
     IN /\ store' = r.store
        /\ pc' = [pc EXCEPT ![p] = IF r.done THEN "idle" ELSE "pause"]
        /\ cur' = [CursorsAfter(store.onDutyParts, r.store.onDutyParts)
                     EXCEPT ![p] = r.cur]
  /\ UNCHANGED <<parts, held, passCount, calls, handed>>
  /\ UNCHANGED <<queueVars, hookVars>>

SRetry(p) ==
  /\ pc[p] = "idle"
  /\ calls < MaxCalls
  /\ calls' = calls + 1
  /\ LET r == retryStep(store, 0)
     IN /\ store' = r.store
        /\ pc' = [pc EXCEPT ![p] = IF r.done THEN "idle" ELSE "retry"]
        /\ cur' = [cur EXCEPT ![p] = r.cur]
  /\ UNCHANGED <<parts, held, passCount, handed>>
  /\ UNCHANGED <<queueVars, hookVars>>

SRetryStep(p) ==
  /\ pc[p] = "retry"
  /\ LET r == retryStep(store, cur[p])
     IN /\ store' = r.store
        /\ pc' = [pc EXCEPT ![p] = IF r.done THEN "idle" ELSE "retry"]
        /\ cur' = [cur EXCEPT ![p] = r.cur]
  /\ UNCHANGED <<parts, held, passCount, calls, handed>>
  /\ UNCHANGED <<queueVars, hookVars>>

StoreNext ==
  \/ \E p \in StoreProcs : SInit(p)
  \/ \E p \in StoreProcs : SInitStep(p)
  \/ SNextPart
  \/ \E part \in held : SPassPart(part)
  \/ \E part \in held : SFailPart(part)
  \/ \E p \in StoreProcs : SPause(p)
  \/ \E p \in StoreProcs : SPauseStep(p)
  \/ \E p \in StoreProcs : SRetry(p)
  \/ \E p \in StoreProcs : SRetryStep(p)

StoreSpec == StoreInit /\ [][StoreNext]_vars

\* ------------------------------------------------------------- the queue on its own
\* Any sequence of enqueue calls (by any of the uploads sharing the queue) and
\* job settlements.  A job here is an opaque async thunk.
Owners == {"fileA", "fileB"}

QueueInit == StoreInit

\* Some upload passes a new job to enqueue.
QEnqueue(owner) ==
  /\ Len(jobs) < MaxJobs
  /\ LET j == Len(jobs) + 1
         r == enqueue(queue, j)
     IN /\ queue' = r.queue
        /\ jobs' = Invoke(Append(jobs, [owner |-> owner, part |-> 0, uploadId |-> 0,
                                        state |-> "pending", tripped |-> FALSE,
                                        paused |-> "no"]),
                          r.started)
        /\ startLog' = startLog \o r.started
  /\ UNCHANGED <<microtasks, storeVars, procVars, hookVars>>

\* The body of a running job returns or throws: its promise settles.
QJobReturns(j) ==
  /\ j \in 1..Len(jobs)
  /\ jobs[j].state = "running"
  /\ jobs' = [jobs EXCEPT ![j].state = "returned"]
  /\ UNCHANGED <<queue, microtasks, startLog, storeVars, procVars, hookVars>>

\* The .finally() callback of job j runs.
JobFinally(j) ==
  /\ j \in 1..Len(jobs)
  /\ jobs[j].state = "returned"
  /\ jobs' = [jobs EXCEPT ![j].state = "settled"]
  /\ queue' = jobFinally(queue)
  /\ microtasks' = microtasks + 1
  /\ UNCHANGED <<startLog, storeVars, procVars, hookVars>>

\* A microtask queued by a .finally() callback runs runNextJobs().
RunNextJobsTask ==
  /\ microtasks > 0
  /\ microtasks' = microtasks - 1
  /\ LET r == runNextJobs(queue)
     IN /\ queue' = r.queue
        /\ jobs' = Invoke(jobs, r.started)
        /\ startLog' = startLog \o r.started
  /\ UNCHANGED <<storeVars, procVars, hookVars>>

QueueNext ==
  \/ \E owner \in Owners : QEnqueue(owner)
  \/ \E j \in 1..Len(jobs) : QJobReturns(j)
  \/ \E j \in 1..Len(jobs) : JobFinally(j)
  \/ RunNextJobsTask

QueueSpec == QueueInit /\ [][QueueNext]_vars

\* The jobs settle and the microtasks run: what the event loop guarantees
\* once every invoked job eventually returns or throws.
QueueFairSpec ==
  /\ QueueSpec
  /\ \A j \in 1..MaxJobs : WF_vars(QJobReturns(j))
  /\ \A j \in 1..MaxJobs : WF_vars(JobFinally(j))
  /\ WF_vars(RunNextJobsTask)


\* ------------------------------------------------------------- the blob slice
\* updateInTransitBlob({ id, changes }): updateOne changes nothing when the
\* entry is gone.
updateInTransitBlob(b, field, value) ==
  IF b.present THEN [b EXCEPT ![field] = value] ELSE b

\* finishThunk.fulfilled that publishes whatever the payload holds.
finishFulfilledAlways(b, n, hasBlob) ==
  [blob |-> [b EXCEPT !.present = FALSE], persisted |-> n + 1]

\* finishThunk.fulfilled that leaves the entry alone when the payload holds
\* no artifact.
finishFulfilledSilent(b, n, hasBlob) ==
  IF hasBlob
  THEN [blob |-> [b EXCEPT !.present = FALSE], persisted |-> n + 1]
  ELSE [blob |-> b, persisted |-> n]

\* The finishThunk.fulfilled reducer: b is the in-transit entry, n the number
\* of persisted artifacts, hasBlob whether the payload holds an artifact.
finishFulfilled(b, n, hasBlob) ==
  IF hasBlob
  THEN [blob |-> [b EXCEPT !.present = FALSE], persisted |-> n + 1]
  ELSE [blob |-> updateInTransitBlob(b, "status", "failed"), persisted |-> n]

\* cancelThunk.fulfilled that removes the entry whatever the payload says.
cancelFulfilledAlways(b, ok) == [b EXCEPT !.present = FALSE]

\* The cancelThunk.fulfilled reducer.
cancelFulfilled(b, ok) == IF ok THEN [b EXCEPT !.present = FALSE] ELSE b

\* ------------------------------------------------------------- useUpload
\* The progress published as a fraction of the file instead of a percentage.
ProgressFraction(doneSize) == doneSize \div FileSize

\* The published progress, (doneSize / blobSize) * 100, rounded down.
Progress(doneSize) == (doneSize * 100) \div FileSize

\* p goes back to the event loop with its operation finished.
Return(p) ==
  /\ pc' = [pc EXCEPT ![p] = "idle"]
  /\ op' = [op EXCEPT ![p] = "none"]

\* One resumption of enqueueJobs inside operation o of p, s being the store
\* as the caller left it and id uploadIdRef.current: nextPart, and when
\* there is a part, a new controller and a job handed to the queue, up to
\* the await defer().
DrainAs(p, o, s, id) ==
  LET r == nextPart(s)
  IN IF r.part = 0
     THEN /\ Return(p)
          /\ store' = s
          /\ UNCHANGED <<held, handed, controllers, queue, jobs, startLog>>
     ELSE /\ Len(jobs) < budget.uploads
          /\ LET j == Len(jobs) + 1
                 q == enqueue(queue, j)
             IN /\ store' = r.store
                /\ held' = held \cup {r.part}
                /\ handed' = handed + 1
                /\ controllers' = Append(controllers, j)
                /\ queue' = q.queue
                /\ jobs' = Invoke(Append(jobs, [owner |-> "fileA", part |-> r.part,
                                                uploadId |-> id,
                                                state |-> "pending",
                                                tripped |-> FALSE,
                                                paused |-> "no"]),
                                  q.started)
                /\ startLog' = startLog \o q.started
                /\ pc' = [pc EXCEPT ![p] = "drain"]
                /\ op' = [op EXCEPT ![p] = o]

Drain(p, o, s) == DrainAs(p, o, s, uploadId)

\* start() after await store.init(): status active, then enqueueJobs up to
\* its first await.
AfterInit(p, o, s) ==
  /\ blob' = updateInTransitBlob(blob, "status", "active")
  /\ Drain(p, o, s)

\* start() that does not look at uploadIdRef and creates a session at
\* every call.
StartAlwaysCreates(p, o, s) ==
  /\ creates' = creates + 1
  /\ cur' = [cur EXCEPT ![p] = creates + 1]
  /\ pc' = [pc EXCEPT ![p] = "create"]
  /\ op' = [op EXCEPT ![p] = o]
  /\ store' = s
  /\ UNCHANGED <<blob, held, handed, controllers, queue, jobs, startLog>>

\* start() up to its first await on the transport or on defer(), inside
\* operation o of p, s being the store as the caller left it.
Start(p, o, s) ==
  IF uploadId # 0
  THEN /\ AfterInit(p, o, s)
       /\ cur' = [cur EXCEPT ![p] = 0]
       /\ UNCHANGED creates
  ELSE /\ creates' = creates + 1
       /\ cur' = [cur EXCEPT ![p] = creates + 1]
       /\ pc' = [pc EXCEPT ![p] = "create"]
       /\ op' = [op EXCEPT ![p] = o]
       /\ store' = s
       /\ UNCHANGED <<blob, held, handed, controllers, queue, jobs, startLog>>

\* The jobs table with a note on every job whose api.upload call is in
\* flight for a part on duty now that pause() is called ("called"), and the
\* table js once that pause() has resolved ("resolved").  The notes are read
\* by no action.
PauseCalled ==
  [j \in 1..Len(jobs) |->
     IF jobs[j].state = "running"
        /\ jobs[j].part \in SeqToSet(store.onDutyParts)
     THEN [jobs[j] EXCEPT !.paused = "called"] ELSE jobs[j]]

PauseResolved(js) ==
  [j \in 1..Len(js) |->
     IF js[j].paused = "called" THEN [js[j] EXCEPT !.paused = "resolved"] ELSE js[j]]

\* abort() that dispatches the cancel thunk whether or not an upload id is
\* assigned.
AfterPauseAlwaysCancels(p, o, js) ==
  /\ blob' = updateInTransitBlob(blob, "status", "paused")
  /\ jobs' = PauseResolved(js)
  /\ IF o = "abort"
     THEN /\ cancels' = Append(cancels, uploadId)
          /\ pc' = [pc EXCEPT ![p] = "cancel"]
          /\ op' = [op EXCEPT ![p] = o]
     ELSE Return(p) /\ UNCHANGED cancels

\* pause() after await store.pause(): status paused; inside abort() the
\* caller goes on after await pause(): without an upload id it returns, else
\* it dispatches the cancel thunk and awaits it.
AfterPause(p, o, js) ==
  /\ blob' = updateInTransitBlob(blob, "status", "paused")
  /\ jobs' = PauseResolved(js)
  /\ IF o = "abort" /\ uploadId # 0
     THEN /\ cancels' = Append(cancels, uploadId)
          /\ pc' = [pc EXCEPT ![p] = "cancel"]
          /\ op' = [op EXCEPT ![p] = o]
     ELSE Return(p) /\ UNCHANGED cancels

\* pause() up to its next await on defer() or on the transport, inside
\* operation o of p, js being the jobs table: one turn of the abort loop,
\* or, when no controller is left, store.pause() up to its first await.
Pause(p, o, js) ==
  IF Len(controllers) > 0
  THEN /\ controllers' = SubSeq(controllers, 1, Len(controllers) - 1)
       /\ jobs' = [js EXCEPT ![controllers[Len(controllers)]].tripped = TRUE]
       /\ pc' = [pc EXCEPT ![p] = "abortLoop"]
       /\ op' = [op EXCEPT ![p] = o]
       /\ UNCHANGED <<store, cur, blob, cancels>>
  ELSE LET r == pauseStep(store, 0)
       IN /\ store' = r.store
          /\ cur' = [cur EXCEPT ![p] = r.cur]
          /\ UNCHANGED controllers
          /\ IF r.done
             THEN AfterPause(p, o, js)
             ELSE /\ pc' = [pc EXCEPT ![p] = "pause"]
                  /\ op' = [op EXCEPT ![p] = o]
                  /\ jobs' = js
                  /\ UNCHANGED <<blob, cancels>>

\* The effect of InTransitFile calls start() when the entry is mounted.
Mount ==
  /\ pc["effect"] = "mount"
  /\ Start("effect", "start", store)
  /\ UNCHANGED <<parts, passCount, calls, microtasks, budget, uploadId, persisted,
                 finishing, finishes, cancels, cancelled, artifacts>>

\* start() is called on the controller, up to its first await.
CallStart ==
  /\ pc["user"] = "idle" /\ calls < budget.calls
  /\ calls' = calls + 1
  /\ Start("user", "start", store)
  /\ UNCHANGED <<parts, passCount, microtasks, budget, uploadId, persisted,
                 finishing, finishes, cancels, cancelled, artifacts>>

\* The user presses the major button while the entry shows paused.
UserStart ==
  /\ blob.present /\ blob.status = "paused"
  /\ CallStart

\* pause() is called on the controller, up to its first await.
CallPause ==
  /\ pc["user"] = "idle" /\ calls < budget.calls
  /\ calls' = calls + 1
  /\ Pause("user", "pause", PauseCalled)
  /\ UNCHANGED <<parts, held, passCount, handed, queue, microtasks, budget, startLog,
                 uploadId, persisted, creates, finishing, finishes, cancelled, artifacts>>

\* The user presses the major button while the entry shows active.
UserPause ==
  /\ blob.present /\ blob.status = "active"
  /\ CallPause

\* abort() is called on the controller: it begins with pause().
CallAbort ==
  /\ pc["user"] = "idle" /\ calls < budget.calls
  /\ calls' = calls + 1
  /\ Pause("user", "abort", PauseCalled)
  /\ UNCHANGED <<parts, held, passCount, handed, queue, microtasks, budget, startLog,
                 uploadId, persisted, creates, finishing, finishes, cancelled, artifacts>>

\* The user presses the minor button: abort() begins with pause().
UserAbort ==
  /\ blob.present
  /\ CallAbort

\* retry() that ends when store.retry() has resolved, without start().
RetryNeverStarts(p, r) ==
  /\ store' = r.store
  /\ cur' = [cur EXCEPT ![p] = IF r.done THEN 0 ELSE r.cur]
  /\ IF r.done
     THEN Return(p)
     ELSE /\ pc' = [pc EXCEPT ![p] = "retry"]
          /\ op' = [op EXCEPT ![p] = "retry"]
  /\ UNCHANGED <<blob, creates, held, handed, controllers, queue, jobs, startLog>>

\* retry() of p after one more turn r of the loop of store.retry(): when
\* the loop is over retry() goes on with start().
Retry(p, r) ==
  IF r.done
  THEN Start(p, "retry", r.store)
  ELSE /\ store' = r.store
       /\ pc' = [pc EXCEPT ![p] = "retry"]
       /\ cur' = [cur EXCEPT ![p] = r.cur]
       /\ op' = [op EXCEPT ![p] = "retry"]
       /\ UNCHANGED <<blob, creates, held, handed, controllers, queue, jobs, startLog>>

\* retry() is called on the controller, up to its first await.
CallRetry ==
  /\ pc["user"] = "idle" /\ calls < budget.calls
  /\ calls' = calls + 1
  /\ IF getDoneSize(store) < FileSize
     THEN /\ Retry("user", retryStep(store, 0))
          /\ UNCHANGED <<finishing, finishes>>
     ELSE /\ controllers' = <<>>
          /\ finishing' = Append(finishing, uploadId)
          /\ finishes' = finishes + 1
          /\ UNCHANGED <<store, pc, cur, op, blob, creates, held, handed, queue,
                         jobs, startLog>>
  /\ UNCHANGED <<parts, passCount, microtasks, budget, uploadId, persisted, cancels, cancelled, artifacts>>

\* The user presses the major button while the entry shows failed: retry()
\* up to its first await.
UserRetry ==
  /\ blob.present /\ blob.status = "failed"
  /\ CallRetry

\* passCount after init created the part objects ps.
Extended(ps) ==
  [k \in 1..Len(ps) |-> IF k \in DOMAIN passCount THEN passCount[k] ELSE 0]

\* start() of p after one more turn r of the loop of store.init(): when the
\* loop is over start() goes on with status active and enqueueJobs.
Init2(p, r) ==
  /\ parts' = r.parts
  /\ passCount' = Extended(r.parts)
  /\ IF r.done
     THEN /\ AfterInit(p, op[p], r.store)
          /\ cur' = [cur EXCEPT ![p] = 0]
     ELSE /\ store' = r.store
          /\ pc' = [pc EXCEPT ![p] = "init"]
          /\ cur' = [cur EXCEPT ![p] = r.cur]
          /\ UNCHANGED <<op, blob, held, handed, controllers, queue, jobs, startLog>>

\* api.create answers the start() of p: with an upload id (the number of the
\* create call), with an empty text, or by throwing.  With an id, start
\* stores it and calls store.init() up to its first await.
CreateResponse(p, outcome) ==
  /\ pc[p] = "create"
  /\ IF outcome = "id"
     THEN /\ uploadId' = cur[p]
          /\ IF store.doneInit
             THEN /\ blob' = updateInTransitBlob(blob, "status", "active")
                  /\ DrainAs(p, op[p], store, cur[p])
                  /\ cur' = [cur EXCEPT ![p] = 0]
                  /\ UNCHANGED <<parts, passCount>>
             ELSE Init2(p, initStep(store, parts, 1))
     ELSE /\ blob' = updateInTransitBlob(blob, "status", "failed")
          /\ Return(p)
          /\ cur' = [cur EXCEPT ![p] = 0]
          /\ UNCHANGED <<uploadId, store, parts, passCount, held, handed,
                         controllers, queue, jobs, startLog>>
  /\ UNCHANGED <<calls, microtasks, budget, persisted, creates, finishing, finishes, cancels, cancelled, artifacts>>

\* store.init() of p resumes after an await defer().
InitStep(p) ==
  /\ pc[p] = "init"
  /\ Init2(p, initStep(store, parts, cur[p]))
  /\ UNCHANGED <<calls, microtasks, budget, uploadId, persisted, creates, finishing, finishes,
                 cancels, cancelled, artifacts>>

\* enqueueJobs of p resumes after an await defer().
DrainStep(p) ==
  /\ pc[p] = "drain"
  /\ Drain(p, op[p], store)
  /\ UNCHANGED <<parts, cur, passCount, calls, microtasks, budget, uploadId, blob,
                 persisted, creates, finishing, finishes, cancels, cancelled, artifacts>>

\* pause() of p resumes after the await defer() of its abort loop.
AbortLoopStep(p) ==
  /\ pc[p] = "abortLoop"
  /\ Pause(p, op[p], jobs)
  /\ UNCHANGED <<parts, held, passCount, calls, handed, queue, microtasks, budget,
                 startLog, uploadId, persisted, creates, finishing, finishes, cancelled, artifacts>>

\* store.pause() of p resumes after an await defer().
PauseStep(p) ==
  /\ pc[p] = "pause"
  /\ LET r == pauseStep(store, cur[p])
     IN /\ store' = r.store
        /\ cur' = [cur EXCEPT ![p] = r.cur]
        /\ IF r.done
           THEN AfterPause(p, op[p], jobs)
           ELSE UNCHANGED <<pc, op, jobs, blob, cancels>>
  /\ UNCHANGED <<parts, held, passCount, calls, handed, queue, microtasks, budget,
                 startLog, uploadId, controllers, persisted, creates, finishing, finishes,
                 cancelled, artifacts>>

\* api.cancel answers: ok, not ok, or a network failure (the thunk is
\* rejected and no reducer runs).
CancelResponse(p, outcome) ==
  /\ pc[p] = "cancel"
  /\ blob' = IF outcome = "crash" THEN blob ELSE cancelFulfilled(blob, outcome = "ok")
  /\ cancelled' = Append(cancelled, outcome)
  /\ Return(p)
  /\ UNCHANGED <<storeVars, cur, queueVars, uploadId, controllers, persisted,
                 creates, finishing, finishes, cancels, artifacts, budget>>

\* store.retry() of p resumes after an await defer().
RetryStep(p) ==
  /\ pc[p] = "retry"
  /\ Retry(p, retryStep(store, cur[p]))
  /\ UNCHANGED <<parts, passCount, calls, microtasks, budget, uploadId, persisted,
                 finishing, finishes, cancels, cancelled, artifacts>>

\* The outcomes api.upload can have for job j: a tripped signal makes fetch
\* reject with AbortError, otherwise the response is ok or not ok, or the
\* network fails.
Outcomes(j) ==
  IF jobs[j].tripped THEN {"aborted"} ELSE {"ok", "notok", "crash"}

\* A job whose catch block has no early return for 'Request aborted.': the
\* rejection of a tripped signal is handled like any other failure.
JobResponseAbortFails(j, outcome) ==
  /\ jobs[j].state = "running"
  /\ outcome \in Outcomes(j)
  /\ jobs' = [jobs EXCEPT ![j].state = "returned"]
  /\ LET part == jobs[j].part
         s == IF outcome = "ok"
              THEN passPart(store, part, ChunkSize(parts[part]))
              ELSE failPart(store, part)
         doneSize == getDoneSize(s)
         b == updateInTransitBlob(blob, "progress", Progress(doneSize))
     IN /\ store' = s
        /\ passCount' = [passCount EXCEPT ![part] =
                           IF s.doneSize # store.doneSize THEN @ + 1 ELSE @]
        /\ cur' = CursorsAfter(store.onDutyParts, s.onDutyParts)
        /\ IF ~getAllClear(s)
           THEN blob' = b /\ UNCHANGED <<controllers, finishing, finishes>>
           ELSE /\ controllers' = <<>>
                /\ IF doneSize # FileSize
                   THEN /\ blob' = updateInTransitBlob(b, "status", "failed")
                        /\ UNCHANGED <<finishing, finishes>>
                   ELSE /\ blob' = b
                        /\ finishing' = Append(finishing, jobs[j].uploadId)
                        /\ finishes' = finishes + 1
  /\ UNCHANGED <<parts, pc, held, calls, handed, queue, microtasks, budget, startLog,
                 op, uploadId, persisted, creates, cancels, cancelled, artifacts>>

\* api.upload settles for the running job j and the job runs to its end.
JobResponse(j, outcome) ==
  /\ jobs[j].state = "running"
  /\ outcome \in Outcomes(j)
  /\ jobs' = [jobs EXCEPT ![j].state = "returned"]
  /\ IF outcome = "aborted"
     THEN UNCHANGED <<store, passCount, cur, blob, controllers, finishing, finishes>>
     ELSE LET part == jobs[j].part
              s == IF outcome = "ok"
                   THEN passPart(store, part, ChunkSize(parts[part]))
                   ELSE failPart(store, part)
              doneSize == getDoneSize(s)
              b == updateInTransitBlob(blob, "progress", Progress(doneSize))
          IN /\ store' = s
             /\ passCount' = [passCount EXCEPT ![part] =
                                IF s.doneSize # store.doneSize THEN @ + 1 ELSE @]
             /\ cur' = CursorsAfter(store.onDutyParts, s.onDutyParts)
             /\ IF ~getAllClear(s)
                THEN blob' = b /\ UNCHANGED <<controllers, finishing, finishes>>
                ELSE /\ controllers' = <<>>
                     /\ IF doneSize # FileSize
                        THEN /\ blob' = updateInTransitBlob(b, "status", "failed")
                             /\ UNCHANGED <<finishing, finishes>>
                        ELSE /\ blob' = b
                             /\ finishing' = Append(finishing, jobs[j].uploadId)
                             /\ finishes' = finishes + 1
  /\ UNCHANGED <<parts, pc, held, calls, handed, queue, microtasks, budget, startLog,
                 op, uploadId, persisted, creates, cancels, cancelled, artifacts>>

\* The payload of the finish thunk for an answer of api.finish, after the
\* finalization that useUpload ran inline before it became a thunk: it holds
\* an artifact when api.finish returned one; an answer without artifact and
\* a call that threw both end as a failed finalization.
finishThunk(outcome) == outcome = "blob"

\* api.finish answers the i-th finish thunk in flight: with an artifact,
\* without one, or by throwing.
FinishResponse(i, outcome) ==
  /\ i \in 1..Len(finishing)
  /\ finishing' = SubSeq(finishing, 1, i - 1) \o SubSeq(finishing, i + 1, Len(finishing))
  /\ artifacts' = IF outcome = "blob" THEN artifacts + 1 ELSE artifacts
  /\ LET r == finishFulfilled(blob, persisted, finishThunk(outcome))
     IN blob' = r.blob /\ persisted' = r.persisted
  /\ UNCHANGED <<storeVars, procVars, queueVars, op, uploadId, controllers,
                 creates, finishes, cancels, cancelled, budget>>

Init ==
  /\ store = NewStore
  /\ parts = <<>>
  /\ pc = [p \in Procs |-> IF p = "effect" THEN "mount" ELSE "idle"]
  /\ cur = [p \in Procs |-> 0]
  /\ held = {}
  /\ passCount = [k \in {} |-> 0]
  /\ calls = 0
  /\ handed = 0
  /\ queue = NewQueue
  /\ jobs = <<>>
  /\ microtasks = 0
  /\ startLog = <<>>
  /\ op = [p \in Procs |-> "none"]
  /\ uploadId = 0
  /\ controllers = <<>>
  /\ blob = [present |-> TRUE, status |-> "active", progress |-> 0]
  /\ persisted = 0
  /\ creates = 0
  /\ finishing = <<>>
  /\ finishes = 0
  /\ cancels = <<>>
  /\ cancelled = <<>>
  /\ artifacts = 0
  /\ budget = [calls |-> MaxCalls, uploads |-> MaxUploads]

Next ==
  \/ Mount
  \/ UserStart
  \/ UserPause
  \/ UserAbort
  \/ UserRetry
  \/ \E p \in Procs, outcome \in {"id", "notext", "crash"} : CreateResponse(p, outcome)
  \/ \E p \in Procs : InitStep(p)
  \/ \E p \in Procs : DrainStep(p)
  \/ \E p \in Procs : AbortLoopStep(p)
  \/ \E p \in Procs : PauseStep(p)
  \/ \E p \in Procs, outcome \in {"ok", "notok", "crash"} : CancelResponse(p, outcome)
  \/ \E p \in Procs : RetryStep(p)
  \/ \E j \in 1..Len(jobs), outcome \in {"ok", "notok", "crash", "aborted"} :
       JobResponse(j, outcome)
  \/ \E j \in 1..Len(jobs) : JobFinally(j)
  \/ RunNextJobsTask
  \/ \E i \in 1..Len(finishing), outcome \in {"blob", "none", "crash"} :
       FinishResponse(i, outcome)

Spec == Init /\ [][Next]_vars

\* ------------------------------------------------------------- longer sessions
\* The same controller over more user operations and more part jobs, with
\* fewer things going wrong around it: api.create answers with an id, the
\* user touches the entry only once the store is initialised and never
\* aborts, and api.finish answers without an artifact.
SessionInit ==
  /\ store = NewStore
  /\ parts = <<>>
  /\ pc = [p \in Procs |-> IF p = "effect" THEN "mount" ELSE "idle"]
  /\ cur = [p \in Procs |-> 0]
  /\ held = {}
  /\ passCount = [k \in {} |-> 0]
  /\ calls = 0
  /\ handed = 0
  /\ queue = NewQueue
  /\ jobs = <<>>
  /\ microtasks = 0
  /\ startLog = <<>>
  /\ op = [p \in Procs |-> "none"]
  /\ uploadId = 0
  /\ controllers = <<>>
  /\ blob = [present |-> TRUE, status |-> "active", progress |-> 0]
  /\ persisted = 0
  /\ creates = 0
  /\ finishing = <<>>
  /\ finishes = 0
  /\ cancels = <<>>
  /\ cancelled = <<>>
  /\ artifacts = 0
  /\ budget = [calls |-> SessionCalls, uploads |-> SessionUploads]

SessionNext ==
  \/ Mount
  \/ store.doneInit /\ UserStart
  \/ store.doneInit /\ UserPause
  \/ store.doneInit /\ UserRetry
  \/ \E p \in Procs : CreateResponse(p, "id")
  \/ \E p \in Procs : InitStep(p)
  \/ \E p \in Procs : DrainStep(p)
  \/ \E p \in Procs : AbortLoopStep(p)
  \/ \E p \in Procs : PauseStep(p)
  \/ \E p \in Procs : RetryStep(p)
  \/ \E j \in 1..Len(jobs), outcome \in {"ok", "notok", "aborted"} :
       JobResponse(j, outcome)
  \/ \E j \in 1..Len(jobs) : JobFinally(j)
  \/ RunNextJobsTask
  \/ \E i \in 1..Len(finishing) : FinishResponse(i, "none")

SessionSpec == SessionInit /\ [][SessionNext]_vars

\* ------------------------------------------------------------- recovery
\* The controller with a transport that recovers: api.create, api.upload and
\* api.finish may fail as long as the user has not touched the entry, and
\* succeed from the first press of the button on; the user only ever
\* presses the major button of a failed entry (retry), and never aborts.
RecoverInit ==
  /\ store = NewStore
  /\ parts = <<>>
  /\ pc = [p \in Procs |-> IF p = "effect" THEN "mount" ELSE "idle"]
  /\ cur = [p \in Procs |-> 0]
  /\ held = {}
  /\ passCount = [k \in {} |-> 0]
  /\ calls = 0
  /\ handed = 0
  /\ queue = NewQueue
  /\ jobs = <<>>
  /\ microtasks = 0
  /\ startLog = <<>>
  /\ op = [p \in Procs |-> "none"]
  /\ uploadId = 0
  /\ controllers = <<>>
  /\ blob = [present |-> TRUE, status |-> "active", progress |-> 0]
  /\ persisted = 0
  /\ creates = 0
  /\ finishing = <<>>
  /\ finishes = 0
  /\ cancels = <<>>
  /\ cancelled = <<>>
  /\ artifacts = 0
  /\ budget = [calls |-> RecoverCalls, uploads |-> RecoverUploads]

\* The transport answers of the recovery sessions.
CreateAnswers(p) ==
  \E outcome \in {"id", "notext", "crash"} :
    /\ outcome # "id" => calls = 0
    /\ CreateResponse(p, outcome)

JobAnswers(j) ==
  \E outcome \in {"ok", "notok", "crash"} :
    /\ outcome # "ok" => calls = 0
    /\ JobResponse(j, outcome)

FinishAnswers(i) ==
  \E outcome \in {"blob", "none", "crash"} :
    /\ outcome # "blob" => calls = 0
    /\ FinishResponse(i, outcome)

RecoverNext ==
  \/ Mount
  \/ UserRetry
  \/ \E p \in Procs : CreateAnswers(p)
  \/ \E p \in Procs : InitStep(p)
  \/ \E p \in Procs : DrainStep(p)
  \/ \E p \in Procs : RetryStep(p)
  \/ \E j \in 1..Len(jobs) : JobAnswers(j)
  \/ \E j \in 1..Len(jobs) : JobFinally(j)
  \/ RunNextJobsTask
  \/ \E i \in 1..Len(finishing) : FinishAnswers(i)

RecoverSpec == RecoverInit /\ [][RecoverNext]_vars

\* Every timer, microtask and transport call of the controller eventually
\* comes back: the event loop runs what is due and fetch settles.
RecoverFairSpec ==
  /\ RecoverSpec
  /\ WF_vars(Mount)
  /\ \A p \in Procs : WF_vars(CreateAnswers(p))
  /\ \A p \in Procs : WF_vars(InitStep(p))
  /\ \A p \in Procs : WF_vars(DrainStep(p))
  /\ \A p \in Procs : WF_vars(RetryStep(p))
  /\ \A j \in 1..RecoverUploads : WF_vars(j \in 1..Len(jobs) /\ JobAnswers(j))
  /\ \A j \in 1..RecoverUploads : WF_vars(JobFinally(j))
  /\ WF_vars(RunNextJobsTask)
  /\ \A i \in 1..RecoverUploads : WF_vars(FinishAnswers(i))

\* ------------------------------------------------------------- resumption
\* The controller with a transport that does not fail: api.create returns an
\* id, api.upload answers ok unless its signal was tripped, api.finish
\* returns the artifact; the user presses the major button of an entry that
\* shows active once the store is initialised (pause) and of one that shows
\* paused (start).
ResumeInit ==
  /\ store = NewStore
  /\ parts = <<>>
  /\ pc = [p \in Procs |-> IF p = "effect" THEN "mount" ELSE "idle"]
  /\ cur = [p \in Procs |-> 0]
  /\ held = {}
  /\ passCount = [k \in {} |-> 0]
  /\ calls = 0
  /\ handed = 0
  /\ queue = NewQueue
  /\ jobs = <<>>
  /\ microtasks = 0
  /\ startLog = <<>>
  /\ op = [p \in Procs |-> "none"]
  /\ uploadId = 0
  /\ controllers = <<>>
  /\ blob = [present |-> TRUE, status |-> "active", progress |-> 0]
  /\ persisted = 0
  /\ creates = 0
  /\ finishing = <<>>
  /\ finishes = 0
  /\ cancels = <<>>
  /\ cancelled = <<>>
  /\ artifacts = 0
  /\ budget = [calls |-> ResumeCalls, uploads |-> ResumeUploads]

\* api.upload answers job j when nothing fails.
JobSucceeds(j) == \E outcome \in {"ok", "aborted"} : JobResponse(j, outcome)

ResumeNext ==
  \/ Mount
  \/ store.doneInit /\ UserPause
  \/ UserStart
  \/ \E p \in Procs : CreateResponse(p, "id")
  \/ \E p \in Procs : InitStep(p)
  \/ \E p \in Procs : DrainStep(p)
  \/ \E p \in Procs : AbortLoopStep(p)
  \/ \E p \in Procs : PauseStep(p)
  \/ \E j \in 1..Len(jobs) : JobSucceeds(j)
  \/ \E j \in 1..Len(jobs) : JobFinally(j)
  \/ RunNextJobsTask
  \/ \E i \in 1..Len(finishing) : FinishResponse(i, "blob")

ResumeSpec == ResumeInit /\ [][ResumeNext]_vars

\* Every step of the controller, the queue and the transport is taken in
\* the end, and so is the start the user calls on a paused entry.
ResumeFairSpec ==
  /\ ResumeSpec
  /\ WF_vars(Mount)
  /\ WF_vars(UserStart)
  /\ \A p \in Procs :
       /\ WF_vars(CreateResponse(p, "id"))
       /\ WF_vars(InitStep(p))
       /\ WF_vars(DrainStep(p))
       /\ WF_vars(AbortLoopStep(p))
       /\ WF_vars(PauseStep(p))
  /\ \A j \in 1..ResumeUploads :
       /\ WF_vars(j \in 1..Len(jobs) /\ JobSucceeds(j))
       /\ WF_vars(JobFinally(j))
  /\ WF_vars(RunNextJobsTask)
  /\ \A i \in 1..ResumeUploads : WF_vars(FinishResponse(i, "blob"))

\* ------------------------------------------------------------- after the end
\* The upload is done: the in-transit entry is retired and an artifact is
\* published.
Done == ~blob.present /\ persisted > 0

\* The controller over a transport that does not fail, left alone until the
\* upload is done; then whoever holds the controller calls its operations
\* (renderHook in the tests of useUpload does; InTransitFile is unmounted
\* with the entry and cannot).
TerminalInit ==
  /\ store = NewStore
  /\ parts = <<>>
  /\ pc = [p \in Procs |-> IF p = "effect" THEN "mount" ELSE "idle"]
  /\ cur = [p \in Procs |-> 0]
  /\ held = {}
  /\ passCount = [k \in {} |-> 0]
  /\ calls = 0
  /\ handed = 0
  /\ queue = NewQueue
  /\ jobs = <<>>
  /\ microtasks = 0
  /\ startLog = <<>>
  /\ op = [p \in Procs |-> "none"]
  /\ uploadId = 0
  /\ controllers = <<>>
  /\ blob = [present |-> TRUE, status |-> "active", progress |-> 0]
  /\ persisted = 0
  /\ creates = 0
  /\ finishing = <<>>
  /\ finishes = 0
  /\ cancels = <<>>
  /\ cancelled = <<>>
  /\ artifacts = 0
  /\ budget = [calls |-> TerminalCalls, uploads |-> TerminalUploads]

TerminalNext ==
  \/ Mount
  \/ \E p \in Procs : CreateResponse(p, "id")
  \/ \E p \in Procs : InitStep(p)
  \/ \E p \in Procs : DrainStep(p)
  \/ \E j \in 1..Len(jobs) : JobResponse(j, "ok")
  \/ \E j \in 1..Len(jobs) : JobFinally(j)
  \/ RunNextJobsTask
  \/ \E i \in 1..Len(finishing) : FinishResponse(i, "blob")
  \/ Done /\ CallStart
  \/ Done /\ CallPause
  \/ Done /\ CallRetry
  \/ Done /\ CallAbort
  \/ \E outcome \in {"ok", "notok", "crash"} : CancelResponse("user", outcome)

TerminalSpec == TerminalInit /\ [][TerminalNext]_vars

\* ------------------------------------------------------------- queue claims
\* C1: the number of jobs that the queue has invoked and that have not yet
\* settled is between 0 and the concurrency, whoever enqueued them.
AtMostConcurrencyOutstanding ==
  /\ Cardinality(Outstanding) >= 0
  /\ Cardinality(Outstanding) <= Concurrency

\* C1 witness: every slot is taken by jobs of both uploads while a further
\* job waits.
AllSlotsTakenJobWaiting ==
  /\ Cardinality(Outstanding) = Concurrency
  /\ Len(queue.pendingJobs) > 0
  /\ \E a, b \in Outstanding : jobs[a].owner # jobs[b].owner

\* C9: every job passed to enqueue is invoked exactly once: never twice,
\* and, as long as invoked jobs settle, eventually once.
EveryJobStartsExactlyOnce ==
  /\ [](\A j \in 1..MaxJobs : Cardinality({i \in 1..Len(startLog) : startLog[i] = j}) <= 1)
  /\ \A j \in 1..MaxJobs :
       (j <= Len(jobs)) ~> (Cardinality({i \in 1..Len(startLog) : startLog[i] = j}) = 1)

\* C9 witness: a job that had to wait for a slot has been invoked and every
\* job has settled.
WaitingJobWasStarted ==
  /\ Len(jobs) = MaxJobs
  /\ Len(startLog) = MaxJobs
  /\ \A j \in 1..Len(jobs) : jobs[j].state = "settled"

\* C10: jobs are invoked in the order in which they were enqueued (job
\* numbers are given in enqueue order), whatever the order of completion.
StartedInEnqueueOrder ==
  \A a, b \in 1..Len(startLog) : a < b => startLog[a] < startLog[b]

\* C10 witness: a later job settled before an earlier one that is still
\* running, and the jobs that waited have been invoked.
StartedInOrderDespiteCompletionOrder ==
  /\ Len(startLog) > Concurrency + 1
  /\ \E a, b \in 1..Len(jobs) :
       a < b /\ jobs[a].state = "running" /\ jobs[b].state = "settled"

\* ------------------------------------------------------------- store claims
\* How many times part object k occurs in the array or Set entries s.
Occurrences(s, k) == Cardinality({i \in 1..Len(s) : s[i] = k})

\* Number of buckets (toSend, onDuty, failed, passed) part object k is in.
BucketsOf(k) ==
  Occurrences(store.toSendParts, k) + Occurrences(store.onDutyParts, k)
    + Occurrences(store.failedParts, k) + (IF passCount[k] > 0 THEN 1 ELSE 0)

PassedCount == Cardinality({k \in DOMAIN passCount : passCount[k] > 0})

\* C2: at every point where another operation or a job callback can run,
\* every enumerated part is in exactly one of toSend, onDuty, failed or
\* passed, so that once init has enumerated the parts
\* partCount = |toSend| + |onDuty| + |failed| + passedCount.
PartInExactlyOneBucket ==
  /\ \A k \in 1..Len(parts) : BucketsOf(k) = 1
  /\ store.doneInit =>
       PartCount = Len(store.toSendParts) + Len(store.onDutyParts)
                     + Len(store.failedParts) + PassedCount

\* C4: the byte length of each part is added to doneSize at most once, so
\* doneSize = fileSize only when every part has been passed exactly once.
PartCountedAtMostOnce ==
  /\ \A k \in DOMAIN passCount : passCount[k] <= 1
  /\ store.doneSize = FileSize =>
       \A index \in 1..PartCount :
         \E k \in DOMAIN passCount :
           /\ parts[k] = index
           /\ passCount[k] = 1
           /\ \A j \in DOMAIN passCount \ {k} : parts[j] = index => passCount[j] = 0

\* C7: once a part handed out by nextPart has been passed, every later
\* passPart or failPart call for it leaves the whole store unchanged.
PassedPartCallsAreNoOps ==
  [][\A part \in held :
       (passCount[part] > 0 /\ (SPassPart(part) \/ SFailPart(part)))
         => store' = store]_vars

\* C8: at every point where another operation or a job callback can run,
\* allClear is true exactly when no part is on duty.
AllClearIffNoneOnDuty == store.allClear = (store.onDutyParts = <<>>)

PauseResolves ==
  \/ pc["user"] \in {"abortLoop", "pause"} /\ pc'["user"] \notin {"abortLoop", "pause"}
  \/ /\ pc["user"] = "idle" /\ calls' # calls
     /\ pc'["user"] \in {"idle", "cancel"} /\ blob'.status = "paused"

DoneOnlyFromArtifact ==
  /\ [](persisted <= artifacts)
  /\ [][persisted' # persisted =>
          /\ persisted' = persisted + 1
          /\ artifacts' = artifacts + 1
          /\ Len(finishing') = Len(finishing) - 1
          /\ ~blob'.present]_vars

\* C6 witness: every part passed, api.finish returned an artifact, the
\* artifact is published and the in-transit entry is gone.
ArtifactPublished ==
  /\ persisted = 1
  /\ artifacts = 1
  /\ ~blob.present
  /\ store.doneSize = FileSize


\* ------------------------------------------------------------- scenario claims
\* Nothing of the controller is running or in flight.
Quiescent ==
  /\ \A p \in Procs : pc[p] = "idle"
  /\ \A j \in 1..Len(jobs) : jobs[j].state = "settled"
  /\ microtasks = 0
  /\ finishing = <<>>

\* No user operation so far and no transport call that failed: api.create
\* has not failed, no part is in failedParts (without retry a failed part
\* stays there), and every api.finish that answered returned an artifact.
NoFailureSoFar ==
  /\ calls = 0
  /\ uploadId = 0 => pc["effect"] \in {"mount", "create"}
  /\ store.failedParts = <<>>
  /\ artifacts + Len(finishing) = finishes

\* Each part of the file has exactly one part job.
OneJobPerPart ==
  /\ Len(jobs) = PartCount
  /\ \A k \in 1..PartCount : Cardinality({j \in 1..Len(jobs) : jobs[j].part = k}) = 1

\* C11: as long as nothing failed and the user did nothing, the entry shows
\* active until it is retired; when the controller has come to rest it is
\* done with progress 100 after exactly one api.create, one part job per
\* part, one api.finish, whose artifact is the one published; and it does
\* come to that end.
HappyPathEndsDone ==
  /\ [](NoFailureSoFar /\ blob.present => blob.status = "active")
  /\ [](NoFailureSoFar /\ Quiescent =>
          /\ Done
          /\ blob.progress = 100
          /\ creates = 1
          /\ OneJobPerPart
          /\ finishes = 1
          /\ artifacts = 1
          /\ persisted = 1)
  /\ <>(~NoFailureSoFar \/ Done)

\* C11 witness: the upload is done without any failure or user operation.
HappyPathDone == NoFailureSoFar /\ Quiescent /\ Done /\ Len(startLog) = PartCount

RECURSIVE BytesOf(_)
\* The bytes of the parts in the set ks.
BytesOf(ks) ==
  IF ks = {} THEN 0
  ELSE LET k == CHOOSE x \in ks : TRUE IN ChunkSize(k) + BytesOf(ks \ {k})

\* The first start() has handed out every part and every part job has
\* answered, the user has done nothing, and at least one part has failed.
InitialDrainEndedWithFailures ==
  /\ calls = 0
  /\ store.doneInit
  /\ pc["effect"] = "idle"
  /\ store.toSendParts = <<>>
  /\ store.onDutyParts = <<>>
  /\ store.failedParts # <<>>
  /\ \A j \in 1..Len(jobs) : jobs[j].state \in {"returned", "settled"}

\* C12: when the initial drain has ended with at least one part failed and
\* the others passed, the status is failed, the progress is the bytes of the
\* passed parts over the file size times 100, and api.finish was not called.
FailedDrainShowsFailed ==
  InitialDrainEndedWithFailures =>
    /\ blob.status = "failed"
    /\ blob.progress =
         (BytesOf((1..PartCount) \ SeqToSet(store.failedParts)) * 100) \div FileSize
    /\ finishes = 0

\* C12 witness: the drain has ended with one part failed and one passed.
OnePartFailedOnePassed ==
  /\ InitialDrainEndedWithFailures
  /\ Len(store.failedParts) = 1
  /\ store.doneSize > 0

\* The store.retry() awaited by the retry() of the user resolves in this
\* step: at once when it is called, or when its loop ends.
RetryResolves ==
  \/ /\ pc["user"] = "idle" /\ calls' # calls
     /\ op'["user"] = "retry" /\ pc'["user"] # "retry"
  \/ pc["user"] = "retry" /\ pc'["user"] # "retry"

\* C13: the retry() called on a failed upload with doneSize below the file
\* size puts every failed part back in line (when store.retry() resolves no
\* part is failed, and each part that was is to send, on duty or passed);
\* when the part jobs and api.finish succeed from then on, the controller
\* comes to rest only with the upload done at progress 100, and does so.
RetryUploadsFailedParts ==
  /\ [][RetryResolves =>
          /\ store'.failedParts = <<>>
          /\ \A k \in SeqToSet(store.failedParts) :
               \/ k \in SeqToSet(store'.toSendParts) \cup SeqToSet(store'.onDutyParts)
               \/ passCount'[k] > 0]_vars
  /\ [](Quiescent /\ calls > 0 /\ creates = 1 /\ Len(jobs) > PartCount =>
          Done /\ blob.progress = 100 /\ store.doneSize = FileSize)
  /\ (pc["user"] = "retry" /\ uploadId # 0) ~> (Done /\ blob.progress = 100)

\* C13 witness: a part failed, retry uploaded it again, and the upload is
\* done.
FailedPartUploadedAgain ==
  /\ Quiescent /\ calls > 0 /\ creates = 1 /\ Len(jobs) > PartCount
  /\ Done /\ blob.progress = 100

\* api.create fails the start() of some process in this step: the start()
\* leaves its await without having stored the id of its call.
CreateFails ==
  \E p \in Procs : pc[p] = "create" /\ pc'[p] # "create" /\ uploadId' # cur[p]

\* No api.upload call has been made: every job enqueued is still pending.
NoUploadCalled(js) == \A j \in 1..Len(js) : js[j].state = "pending"

\* C14: when api.create throws or returns no upload id, start() ends with
\* status failed and progress 0, the upload id still empty, the store not
\* initialised and no api.upload call made.
CreateFailureLeavesNothing ==
  [][CreateFails =>
       /\ blob'.status = "failed" /\ blob'.progress = 0
       /\ uploadId' = 0
       /\ ~store'.doneInit
       /\ NoUploadCalled(jobs')]_vars

\* C14 witness: the only api.create call made has failed.
FirstCreateFailed ==
  /\ creates = 1 /\ uploadId = 0 /\ pc["effect"] = "idle" /\ calls = 0
  /\ blob.status = "failed"

\* The user presses retry (the one operation the recovery scenario lets the
\* user call) after api.create failed: the entry shows failed, no upload id
\* is assigned and no api.create call is in flight.
RetryAfterCreateFailure ==
  /\ pc["user"] = "idle" /\ calls' # calls /\ blob.status = "failed"
  /\ uploadId = 0 /\ creates > 0 /\ \A p \in Procs : pc[p] # "create"

\* C15: the retry() called after a create failure calls api.create again;
\* when that call and every later transport call succeed, the controller
\* comes to rest only with the upload done at progress 100 and every byte
\* counted, and does so.
RetryAfterCreateFailureEndsDone ==
  /\ [][RetryAfterCreateFailure =>
          creates' = creates + 1 /\ pc'["user"] = "create"]_vars
  /\ [](Quiescent /\ creates > 1 =>
          Done /\ blob.progress = 100 /\ store.doneSize = FileSize /\ uploadId # 0)
  /\ (creates > 1) ~> (Done /\ blob.progress = 100)

\* C15 witness: the first api.create failed, the second succeeded and the
\* upload is done.
SecondCreateEndedDone ==
  /\ Quiescent /\ creates = 2 /\ uploadId = 2
  /\ Done /\ blob.progress = 100

\* api.finish answers in this step without an artifact or by throwing.
FinishFails == Len(finishing') < Len(finishing) /\ artifacts' = artifacts

\* Every part has passed and the store has counted every byte once.
EveryPartPassed ==
  /\ store.doneInit /\ store.doneSize = FileSize
  /\ \A k \in 1..PartCount : passCount[k] = 1

RetryWithEveryByteDone ==
  /\ pc["user"] = "idle" /\ calls' # calls /\ pc'["user"] = "idle"
  /\ blob.present /\ blob.status = "failed"
  /\ store.doneInit /\ store.doneSize = FileSize

\* C17: retry() called with doneSize equal to the file size dispatches
\* finish once more, enqueues no part job and leaves the store alone; the
\* answer of api.finish retires the entry with its artifact published, or
\* leaves it failed.
RetryOnlyFinishes ==
  /\ [][RetryWithEveryByteDone =>
          /\ finishes' = finishes + 1
          /\ finishing' = Append(finishing, uploadId)
          /\ jobs' = jobs /\ queue' = queue
          /\ store' = store]_vars
  /\ [][Len(finishing') < Len(finishing) /\ blob.present =>
          IF artifacts' # artifacts
          THEN ~blob'.present /\ persisted' = persisted + 1
          ELSE blob'.present /\ blob'.status = "failed" /\ persisted' = persisted]_vars

\* C17 witness: api.finish failed after a flawless upload of the parts, the
\* user pressed retry, and the second api.finish call retired the entry.
SecondFinishEndedDone ==
  /\ Len(jobs) = PartCount /\ EveryPartPassed /\ calls = 1
  /\ finishes = 2 /\ finishing = <<>> /\ artifacts = 1 /\ cancels = <<>>
  /\ Done

\* A part job is enqueued in this step for a part the store has counted.
PassedPartEnqueued ==
  /\ Len(jobs') > Len(jobs)
  /\ passCount[jobs'[Len(jobs')].part] > 0

OutstandingJobs(js) ==
  {j \in 1..Len(js) : js[j].state \in {"pending", "running"}}

AbortPassesPause ==
  \/ /\ op["user"] = "abort" /\ pc["user"] \in {"abortLoop", "pause"}
     /\ pc'["user"] \notin {"abortLoop", "pause"}
  \/ /\ pc["user"] = "idle" /\ calls' # calls
     /\ \/ pc'["user"] = "cancel"
        \/ /\ pc'["user"] = "idle"
           /\ blob.present /\ blob.status # "active" /\ blob'.status = "paused"

\* C20: when its pause() has resolved, abort() makes one api.cancel call
\* with the upload id of the controller if one is assigned and none if not,
\* and the entry shows paused; api.cancel is called by nothing else.
AbortCancelsOnce ==
  /\ [][AbortPassesPause =>
          /\ cancels' = IF uploadId # 0 THEN Append(cancels, uploadId) ELSE cancels
          /\ pc'["user"] = IF uploadId # 0 THEN "cancel" ELSE "idle"
          /\ blob'.present => blob'.status = "paused"]_vars
  /\ [][cancels' # cancels => AbortPassesPause]_vars

\* C20 witness: the abort() of a running upload has made its one api.cancel
\* call, with the upload id, and the entry shows paused.
AbortedWithId ==
  /\ pc["user"] = "cancel" /\ op["user"] = "abort"
  /\ uploadId # 0 /\ cancels = <<uploadId>>
  /\ calls = 1 /\ Len(jobs) > 0 /\ blob.status = "paused"

\* The abort() of an entry whose api.create failed has returned without an
\* api.cancel call.
AbortedWithoutId ==
  /\ pc["user"] = "idle" /\ pc["effect"] = "idle" /\ calls = 1
  /\ creates = 1 /\ uploadId = 0 /\ cancels = <<>>
  /\ blob.status = "paused"

\* api.cancel answers in this step; LastCancel is its outcome.
CancelAnswered == Len(cancelled') > Len(cancelled)

LastCancel == cancelled'[Len(cancelled')]

CancelFailedEntryPaused ==
  /\ Len(cancelled) = 1 /\ cancelled[1] # "ok"
  /\ blob.present /\ blob.status = "paused"

\* C22: once the upload is done, a call of start, pause, retry or abort
\* returns without a change of the entry and without a transport call: no
\* api.create, no part job, no finish and no cancel.
DoneIsTerminal ==
  [][Done /\ calls' # calls =>
       /\ blob' = blob /\ persisted' = persisted
       /\ creates' = creates /\ jobs' = jobs
       /\ finishes' = finishes /\ cancels' = cancels]_vars

\* A finish thunk is dispatched in this step (by a part job or by retry()).
FinishDispatched == finishes' > finishes

JobDispatchesFinish ==
  /\ FinishDispatched
  /\ \E j \in 1..Len(jobs) : jobs[j].state = "running" /\ jobs'[j].state = "returned"

OffDutyJobAnswered ==
  \E j \in 1..Len(jobs) :
    /\ jobs[j].state = "running" /\ jobs'[j].state = "returned"
    /\ ~jobs[j].tripped
    /\ jobs[j].part \notin SeqToSet(store.onDutyParts)

JobSetsFailed ==
  /\ \E j \in 1..Len(jobs) :
       /\ jobs[j].state = "running" /\ jobs'[j].state = "returned"
       /\ ~jobs[j].tripped
  /\ getAllClear(store') /\ getDoneSize(store') # FileSize
  /\ blob'.present /\ blob'.status = "failed"

\* C26: whenever a part job sets status failed, some parts are in failed,
\* toSend and onDuty are both empty, and every part that has not passed is
\* in the failed bucket.
FailedMeansOnlyFailedLeft ==
  [][JobSetsFailed =>
       /\ store'.failedParts # <<>>
       /\ store'.toSendParts = <<>> /\ store'.onDutyParts = <<>>
       /\ \A k \in DOMAIN passCount' :
            passCount'[k] = 0 => k \in SeqToSet(store'.failedParts)]_vars


\* api.upload rejects for a running job whose signal was tripped.
AbortedJobReturns ==
  \E j \in 1..Len(jobs) :
    jobs[j].state = "running" /\ jobs'[j].state = "returned" /\ jobs[j].tripped

\* C27: a job whose uploadPart fails with the Aborted kind returns at once:
\* the store (no passPart, no failPart), the progress and status of the
\* entry, the token set and the finalizations are all left as they were.
AbortedJobTouchesNothing ==
  [][AbortedJobReturns =>
       UNCHANGED <<store, passCount, blob, controllers, finishing, finishes,
                   persisted>>]_vars

\* A tripped job has returned while its part waits to be sent again and the
\* upload is paused.
AbortedJobReturnedPaused ==
  /\ blob.present /\ blob.status = "paused"
  /\ \E j \in 1..Len(jobs) :
       /\ jobs[j].tripped /\ jobs[j].state = "returned"
       /\ jobs[j].part \in SeqToSet(store.toSendParts)


\* Job j gets an answer from api.upload that is not the rejection of a
\* tripped signal.
JobAnswered(j) ==
  jobs[j].state = "running" /\ jobs'[j].state = "returned" /\ ~jobs[j].tripped

\* Part object k is kept by store s: it waits, is on duty or failed, or its
\* bytes were added to doneSize.
Kept(s, pass, k) ==
  \/ k \in SeqToSet(s.toSendParts) \cup SeqToSet(s.onDutyParts) \cup SeqToSet(s.failedParts)
  \/ pass[k] > 0

InitEnumeratesOnce ==
  /\ Len(parts) <= PartCount
  /\ \A a, b \in 1..Len(parts) : a # b => parts[a] # parts[b]


\* store.pause() of p leaves its loop and returns.
PauseReturns(p) == pc[p] = "pause" /\ pc'[p] # "pause"

\* C30: store.pause moves every part that is on duty back into toSendParts
\* and empties onDutyParts, leaving failedParts and doneSize unchanged: when
\* it returns, the parts that were on duty wait in toSendParts (the same
\* part objects) for the following nextPart calls.
PauseRequeuesOnDuty ==
  [][\A p \in Procs : PauseReturns(p) =>
       /\ store'.onDutyParts = <<>>
       /\ SeqToSet(store.onDutyParts) \subseteq SeqToSet(store'.toSendParts)
       /\ store'.failedParts = store.failedParts
       /\ store'.doneSize = store.doneSize]_vars


\* store.retry() of p leaves its loop and returns.
RetryReturns(p) == pc[p] = "retry" /\ pc'[p] = "idle"

\* C31: store.retry moves every part in failedParts back into toSendParts
\* and empties failedParts, leaving onDutyParts and doneSize unchanged: when
\* it returns its iterator has visited (and so pushed) every entry of
\* failedParts, and each part that had failed waits in toSendParts for the
\* following nextPart calls or was delivered by one made since its push.
RetryRequeuesFailed ==
  [][/\ store.failedParts # <<>> /\ store'.failedParts = <<>>
        => \E p \in Procs : RetryReturns(p)
     /\ \A p \in Procs : RetryReturns(p) =>
          /\ cur[p] = Len(store.failedParts)
          /\ store'.failedParts = <<>>
          /\ \A part \in SeqToSet(store.failedParts) :
               \/ part \in SeqToSet(store'.toSendParts)
               \/ part \in SeqToSet(store'.onDutyParts) /\ part \in held
               \/ passCount'[part] > 0
          /\ store'.onDutyParts = store.onDutyParts
          /\ store'.doneSize = store.doneSize]_vars

\* A part has failed (allClear is set, no byte is done) and retry has put it
\* back: every part waits in toSendParts again and failedParts is empty.
FailedPartWaitsAgain ==
  /\ pc["user"] = "idle"
  /\ store.allClear /\ store.doneSize = 0 /\ held # {}
  /\ store.failedParts = <<>> /\ store.onDutyParts = <<>>
  /\ Len(store.toSendParts) = PartCount


\* start() is called on the controller with the upload id assigned (the
\* entry shows paused, so the call is the one of the major button).
StartCalledWithId ==
  /\ pc["user"] = "idle" /\ calls' = calls + 1
  /\ blob.present /\ blob.status = "paused"
  /\ uploadId # 0

\* C32: once the upload id is assigned, start() never calls api.create and
\* never runs store.init again: it sets status active and drains
\* toSendParts, so a start() issued while toSendParts is empty enqueues no
\* job and makes no transport call.
StartWithIdOnlyDrains ==
  [][/\ creates' > creates => uploadId = 0
     /\ StartCalledWithId =>
          /\ creates' = creates /\ uploadId' = uploadId
          /\ parts' = parts /\ store'.doneInit = store.doneInit
          /\ pc'["user"] \in {"drain", "idle"}
          /\ blob' = [blob EXCEPT !.status = "active"]
          /\ finishes' = finishes /\ cancels' = cancels
          /\ IF store.toSendParts = <<>>
             THEN /\ store' = store /\ jobs' = jobs /\ queue' = queue
                  /\ controllers' = controllers /\ pc'["user"] = "idle"
             ELSE /\ Len(jobs') = Len(jobs) + 1
                  /\ jobs'[Len(jobs')].part = store.toSendParts[Len(store.toSendParts)]
                  /\ jobs'[Len(jobs')].uploadId = uploadId
                  /\ pc'["user"] = "drain"]_vars

\* start() was pressed after a pause while nothing was left to send: every
\* part has passed with one job each, none was tripped, the finalization is
\* in flight and the entry shows active again.
StartFoundNothingToSend ==
  /\ calls = 2 /\ pc["user"] = "idle" /\ pc["effect"] = "idle"
  /\ blob.present /\ blob.status = "active"
  /\ store.toSendParts = <<>> /\ store.onDutyParts = <<>>
  /\ Len(jobs) = PartCount /\ creates = 1 /\ finishing # <<>>
  /\ \A j \in 1..Len(jobs) : ~jobs[j].tripped /\ jobs[j].state = "settled"


\* C33: a controller creates at most one upload session: api.create is
\* called only while the upload id is empty and no other create call is
\* outstanding, the upload id never changes once assigned, and every
\* api.upload, api.finish and api.cancel call carries that one id.
OneSessionPerController ==
  [][/\ creates' > creates =>
          uploadId = 0 /\ \A p \in Procs : pc[p] # "create"
     /\ uploadId # 0 => uploadId' = uploadId
     /\ \A j \in 1..Len(jobs') : jobs'[j].uploadId = uploadId'
     /\ \A i \in 1..Len(finishing') : finishing'[i] = uploadId'
     /\ \A i \in 1..Len(cancels') : cancels'[i] = uploadId']_vars


\* The untripped tokens held in the controllers array for part object k.
LiveTokens(ctl, js, k) ==
  {i \in 1..Len(ctl) : js[ctl[i]].part = k /\ ~js[ctl[i]].tripped}

\* The controllers array is emptied by assignment (controllers.length = 0),
\* not by the popping loop of pause(): no token is tripped in the step.
EmptiedWithoutTripping ==
  /\ controllers # <<>> /\ controllers' = <<>>
  /\ \A j \in 1..Len(jobs) : jobs'[j].tripped = jobs[j].tripped

\* C34: in every reachable state each part on duty has exactly one
\* untripped token in the controllers array, and the array is emptied
\* without tripping only when no part is on duty.
OnDutyPartsHoldOneToken ==
  [][/\ \A k \in SeqToSet(store'.onDutyParts) :
          Cardinality(LiveTokens(controllers', jobs', k)) = 1
     /\ EmptiedWithoutTripping => store'.onDutyParts = <<>>]_vars


\* pause() is in progress while the start() of the mount effect is still in
\* its enqueueJobs loop.
PauseDuringDrain ==
  pc["user"] \in {"abortLoop", "pause"} /\ op["user"] = "pause" /\ pc["effect"] = "drain"

\* Both operations have resolved and the entry still shows paused.
BothResolvedPaused ==
  /\ \A p \in Procs : pc[p] = "idle"
  /\ blob.present /\ blob.status = "paused"

\* No part is on duty, no untripped token is held and no job with an
\* untripped token is running or pending in the queue.
NothingOutstanding ==
  /\ store.onDutyParts = <<>>
  /\ \A i \in 1..Len(controllers) : jobs[controllers[i]].tripped
  /\ \A j \in 1..Len(jobs) :
       jobs[j].state \in {"pending", "running"} => jobs[j].tripped

JobSettles ==
  \E j \in 1..Len(jobs) : jobs[j].state = "returned" /\ jobs'[j].state = "settled"

\* C36: when a running job settles and frees a slot, the next pending job
\* is not started in the step of the settlement but in a later microtask:
\* the settlement leaves the pending jobs waiting and queues one microtask,
\* and a job is only ever started by such a microtask or by an enqueue.
NextStartInLaterMicrotask ==
  [][/\ JobSettles =>
          /\ queue'.runningJobs = queue.runningJobs - 1
          /\ queue'.pendingJobs = queue.pendingJobs
          /\ startLog' = startLog
          /\ microtasks' = microtasks + 1
          /\ \A j \in 1..Len(jobs) :
               jobs[j].state = "pending" => jobs'[j].state = "pending"
     /\ startLog' # startLog =>
          microtasks' = microtasks - 1 \/ Len(jobs') = Len(jobs) + 1]_vars

\* A job has settled and freed a slot while another job is pending: the
\* microtask that will start it is queued and has not run yet.
SlotFreedJobStillPending ==
  /\ queue.runningJobs < Concurrency
  /\ Len(queue.pendingJobs) > 0
  /\ microtasks > 0
  /\ \E j \in 1..Len(jobs) : jobs[j].state = "settled"


\* What nextPart() gives is neither a part nor none (0 stands for
\* undefined): the call ended in an exception.
Raises(r) == r.part \notin Nat

\* C37: calling nextPart before init is an invariant violation: as long as
\* init has not completed, a nextPart call ends in an exception instead of
\* returning a part or none.
NextPartBeforeInitRaises ==
  ~store.doneInit => Raises(nextPart(store))


\* ------------------------------------------------------------- after abort
\* An upload over a transport that never fails, aborted once at any moment
\* after the store is initialised; when abort() has resolved and the entry
\* is still shown (paused), the user may press start.
AbortCalls == 2
AbortUploads == 4

AbortInit ==
  /\ store = NewStore
  /\ parts = <<>>
  /\ pc = [p \in Procs |-> IF p = "effect" THEN "mount" ELSE "idle"]
  /\ cur = [p \in Procs |-> 0]
  /\ held = {}
  /\ passCount = [k \in {} |-> 0]
  /\ calls = 0
  /\ handed = 0
  /\ queue = NewQueue
  /\ jobs = <<>>
  /\ microtasks = 0
  /\ startLog = <<>>
  /\ op = [p \in Procs |-> "none"]
  /\ uploadId = 0
  /\ controllers = <<>>
  /\ blob = [present |-> TRUE, status |-> "active", progress |-> 0]
  /\ persisted = 0
  /\ creates = 0
  /\ finishing = <<>>
  /\ finishes = 0
  /\ cancels = <<>>
  /\ cancelled = <<>>
  /\ artifacts = 0
  /\ budget = [calls |-> AbortCalls, uploads |-> AbortUploads]

AbortNext ==
  \/ Mount
  \/ store.doneInit /\ calls = 0 /\ UserAbort
  \/ calls > 0 /\ UserStart
  \/ \E p \in Procs : CreateResponse(p, "id")
  \/ \E p \in Procs : InitStep(p)
  \/ \E p \in Procs : DrainStep(p)
  \/ \E p \in Procs : AbortLoopStep(p)
  \/ \E p \in Procs : PauseStep(p)
  \/ \E outcome \in {"ok", "notok", "crash"} : CancelResponse("user", outcome)
  \/ \E j \in 1..Len(jobs) : JobSucceeds(j)
  \/ \E j \in 1..Len(jobs) : JobFinally(j)
  \/ RunNextJobsTask
  \/ \E i \in 1..Len(finishing) : FinishResponse(i, "blob")

AbortSpec == AbortInit /\ [][AbortNext]_vars

\* abort() has resolved: its api.cancel call was answered.
AbortResolved == cancelled # <<>>

\* The parts whose api.upload call was in flight when abort() was called.
InFlightAtAbort ==
  {jobs[j].part : j \in {i \in 1..Len(jobs) : jobs[i].paused = "resolved"}}

\* A job is built and enqueued for part object k: a further api.upload call.
EnqueuedFor(k) ==
  Len(jobs') = Len(jobs) + 1 /\ jobs'[Len(jobs')].part = k

\* C38: after abort the controller never re-enqueues the parts that were
\* in flight at the time of the abort, whatever operation follows.
AbortNeverReenqueues ==
  [][AbortResolved => \A k \in InFlightAtAbort : ~EnqueuedFor(k)]_vars

====
